---- MODULE Spec2Model ----
(***************************************************************************)
(* A model of src/gallery.js: the extraction loop of fetchGooglePhotos,    *)
(* the DOM construction of renderGallery and the DOMContentLoaded handler. *)
(*                                                                         *)
(* A source text is modelled by the sequence of matches the regular        *)
(* expression of line 25 finds in it, in source order.  A match is a       *)
(* record [url, width, height]: url is an opaque identifier (URLs are only *)
(* compared for equality), width and height are the digit strings of the   *)
(* capture groups, as sequences of digits.                                 *)
(***************************************************************************)
EXTENDS Integers, Sequences, FiniteSets, TLC

VARIABLES
    pc,              \* pc[c]: where call c of fetchGooglePhotos stands
    html,            \* html[c]: the text of call c's response (line 20)
    fetchError,      \* fetchError[c]: which step of call c failed, if any
    result,          \* result[c]: the value call c's promise resolved with
    lastIndex,       \* lastIndex[f]: scan position of the regex of frame f
    photos,          \* photos[f]: the photos array of frame f (line 28)
    seenUrls,        \* seenUrls[f]: the seenUrls Set of frame f (line 29)
    running,         \* the call whose synchronous loop is running, or 0
    hpc,             \* position of the DOMContentLoaded handler
    containerExists, \* whether document has an element 'gallery-grid'
    children,        \* the child nodes of that element, in order
    renderCalled,    \* whether renderGallery has been called
    lastArg          \* the argument of the last renderGallery call

vars == <<pc, html, fetchError, result, lastIndex, photos, seenUrls, running,
          hpc, containerExists, children, renderCalled, lastArg>>

callVars == <<pc, html, fetchError, result, lastIndex, photos, seenUrls, running>>
domVars == <<containerExists, children, renderCalled, lastArg>>
pageVars == <<hpc, containerExists, children, renderCalled, lastArg>>

-----------------------------------------------------------------------------
(* Bounds of the model *)

MaxLen == 7         \* longest generated source text, in matches
MaxSmall == 1       \* most below-threshold matches in a generated text
MaxRepeat == 1      \* most repeated-URL matches in a generated text
ConcMaxLen == 2     \* longest generated text of the two-call specification
MaxRenderLen == 7   \* longest list handed directly to renderGallery

(* Program constants *)

THRESHOLD == 300
MAX_ITEMS == 6

Calls == {1, 2}

-----------------------------------------------------------------------------
(* parseInt(s, 10) on a string of decimal digits *)

RECURSIVE ParseInt(_)
ParseInt(s) ==
    IF s = <<>> THEN 0
    ELSE ParseInt(SubSeq(s, 1, Len(s) - 1)) * 10 + s[Len(s)]

(* Faulty variant: the comparison written >= *)
SizeOkAtLeast(width, height) == width >= THRESHOLD /\ height >= THRESHOLD

(* The size filter of line 37 *)
SizeOk(width, height) == width > THRESHOLD /\ height > THRESHOLD

(* photos.push({url, width, height}), lines 39-43 *)
PushPhoto(list, url, width, height) ==
    Append(list, [url |-> url, width |-> width, height |-> height])

(* Faulty variant: seenUrls.add left out *)
SeenAfterNeverAdds(seen, url, sizeOk) == seen

(* Faulty variant: seenUrls.add moved out of the two conditions *)
SeenAfterAlwaysAdds(seen, url, sizeOk) == seen \cup {url}

(* The seenUrls Set after one iteration, lines 37-46: the URL is added      *)
(* only inside both conditions.                                            *)

SeenAfter(seen, url, sizeOk) ==
    IF sizeOk /\ url \notin seen THEN seen \cup {url} ELSE seen

(* Faulty variant: photos.unshift in place of photos.push *)
PhotosAfterUnshift(list, seen, match) ==
    LET width == ParseInt(match.width)
        height == ParseInt(match.height)
    IN  IF SizeOk(width, height) /\ match.url \notin seen
        THEN <<[url |-> match.url, width |-> width, height |-> height]>> \o list
        ELSE list

(* The photos array after one iteration, lines 32-46 *)
PhotosAfter(list, seen, match) ==
    LET width == ParseInt(match.width)
        height == ParseInt(match.height)
    IN  IF SizeOk(width, height)
        THEN IF match.url \notin seen
             THEN PushPhoto(list, match.url, width, height)
             ELSE list
        ELSE list

(* Faulty variant: the comparison written > *)
QuotaReachedLate(list) == Len(list) > MAX_ITEMS

(* The quota test of line 49 *)
QuotaReached(list) == Len(list) >= MAX_ITEMS

(* Faulty variant: regex, photos and seenUrls hoisted to module scope *)
SharedFrame(c) == 1

(* The activation of fetchGooglePhotos that call c runs in: regex, photos  *)
(* and seenUrls are locals, bound to objects created in that activation.   *)

Frame(c) == c

(* Faulty variant: the throwing statements outside the try block *)
Uncaught == FALSE

(* Whether a throw inside fetchGooglePhotos is inside the try block of     *)
(* lines 11-57, whose catch (lines 57-60) logs and returns [].             *)

Caught == TRUE

-----------------------------------------------------------------------------
(* Source texts *)

W300 == <<3, 0, 0>>
W301 == <<3, 0, 1>>

PassDim == <<W301, W301>>
SmallDims == {<<W300, W301>>, <<W301, W300>>}
Dims == {PassDim} \cup SmallDims

Match(u, d) == [url |-> u, width |-> d[1], height |-> d[2]]

UrlsOf(t) == {t[i].url : i \in 1..Len(t)}

NumSmall(t) ==
    Cardinality({i \in 1..Len(t) : <<t[i].width, t[i].height>> \in SmallDims})

NumRepeat(t) ==
    Cardinality({i \in 1..Len(t) : \E j \in 1..(i - 1) : t[j].url = t[i].url})

(* Eight matches: two below the threshold (one of width 300, one of height *)
(* 300), one duplicate of an accepted URL, five distinct and valid.        *)
ScenarioText ==
    << Match(1, <<<<1, 0, 2, 4>>, <<7, 6, 8>>>>),
       Match(2, <<W300, <<7, 6, 8>>>>),
       Match(3, PassDim),
       Match(1, <<<<2, 0, 4, 8>>, <<1, 5, 3, 6>>>>),
       Match(4, <<<<0, 3, 0, 1>>, <<3, 0, 2>>>>),
       Match(5, <<<<8, 0, 0>>, W300>>),
       Match(6, PassDim),
       Match(7, PassDim) >>

(* Nine matches: eight distinct valid URLs and one below the threshold *)
QuotaText ==
    << Match(1, PassDim), Match(2, PassDim), Match(3, <<W300, W300>>),
       Match(4, PassDim), Match(5, PassDim), Match(6, PassDim),
       Match(7, PassDim), Match(8, PassDim), Match(9, PassDim) >>

FixedTexts == {ScenarioText, QuotaText}

(* The fixed texts that continue t, cut one match after t *)
FixedExtensions(t) ==
    { SubSeq(f, 1, Len(t) + 1) :
        f \in {g \in FixedTexts : Len(g) > Len(t) /\ SubSeq(g, 1, Len(t)) = t} }

(* The texts of one more match than t.  URLs are numbered in the order of  *)
(* their first occurrence.                                                 *)
Extensions(t) ==
    { e \in { Append(t, Match(u, d)) :
                u \in 1..(Cardinality(UrlsOf(t)) + 1), d \in Dims } :
        /\ \A i \in 1..Len(t) : <<t[i].width, t[i].height>> \in Dims
        /\ Len(e) <= MaxLen
        /\ NumSmall(e) <= MaxSmall
        /\ NumRepeat(e) <= MaxRepeat }
    \cup FixedExtensions(t)

(* The texts of the two-call specification draw their URLs from a pool     *)
(* both calls share, so that the two texts can have URLs in common.        *)
ConcUrlPool == {1, 2}

ConcDims == {PassDim, <<W300, W301>>}

ConcExtensions(t) ==
    { e \in {Append(t, Match(u, d)) : u \in ConcUrlPool, d \in ConcDims} :
        /\ \A i \in 1..Len(t) : <<t[i].width, t[i].height>> \in ConcDims
        /\ Len(e) <= ConcMaxLen }
    \cup FixedExtensions(t)

-----------------------------------------------------------------------------
(* fetchGooglePhotos, lines 10-61 *)

(* A throw inside the function: html is never bound, and the catch         *)
(* returns [] to the caller.                                               *)
Throw(c, why) ==
    /\ fetchError' = [fetchError EXCEPT ![c] = why]
    /\ pc' = [pc EXCEPT ![c] = IF Caught THEN "done" ELSE "rejected"]
    /\ result' = [result EXCEPT ![c] = <<>>]
    /\ html' = [html EXCEPT ![c] = <<>>]
    /\ UNCHANGED <<lastIndex, photos, seenUrls, running>>
    /\ UNCHANGED pageVars

(* await fetch(...) rejects, line 14 *)
FetchReject(c) ==
    /\ pc[c] = "fetch"
    /\ running = 0
    /\ Throw(c, "fetch")

(* await fetch(...) resolves, lines 14-18 *)
FetchResolve(c) ==
    /\ pc[c] = "fetch"
    /\ running = 0
    /\ \E ok \in BOOLEAN :
          IF ok
          THEN /\ pc' = [pc EXCEPT ![c] = "text"]
               /\ UNCHANGED <<html, fetchError, result, lastIndex, photos,
                              seenUrls, running>>
               /\ UNCHANGED pageVars
          ELSE Throw(c, "status")

(* await response.text() rejects, line 20 *)
TextReject(c) ==
    /\ pc[c] = "text"
    /\ running = 0
    /\ Throw(c, "text")

(* While response.text() is pending the body arrives, match by match *)
BodyChunk(c, next) ==
    /\ pc[c] = "text"
    /\ running = 0
    /\ \E t \in next : html' = [html EXCEPT ![c] = t]
    /\ UNCHANGED <<pc, fetchError, result, lastIndex, photos, seenUrls, running>>
    /\ UNCHANGED pageVars

(* await response.text() resolves with the body, lines 20-29: the loop     *)
(* then runs without yielding.                                             *)
TextResolve(c) ==
    /\ pc[c] = "text"
    /\ running = 0
    /\ pc' = [pc EXCEPT ![c] = "scan"]
    /\ running' = c
    /\ UNCHANGED <<html, fetchError, result, lastIndex, photos, seenUrls>>
    /\ UNCHANGED pageVars

(* One evaluation of the loop condition and, on a match, of the loop body, *)
(* lines 31-52; when the loop ends, lines 54-55 return photos.             *)
ScanStep(c) ==
    /\ pc[c] = "scan"
    /\ running = c
    /\ LET f == Frame(c)
           idx == lastIndex[f]
       IN  IF idx >= Len(html[c])
           THEN \* regex.exec returns null and resets lastIndex
                /\ lastIndex' = [lastIndex EXCEPT ![f] = 0]
                /\ result' = [result EXCEPT ![c] = photos[f]]
                /\ pc' = [pc EXCEPT ![c] = "done"]
                /\ running' = 0
                /\ UNCHANGED <<photos, seenUrls>>
           ELSE LET match == html[c][idx + 1]
                    sizeOk == SizeOk(ParseInt(match.width), ParseInt(match.height))
                    list == PhotosAfter(photos[f], seenUrls[f], match)
                IN  /\ lastIndex' = [lastIndex EXCEPT ![f] = idx + 1]
                    /\ photos' = [photos EXCEPT ![f] = list]
                    /\ seenUrls' = [seenUrls EXCEPT
                                      ![f] = SeenAfter(seenUrls[f], match.url, sizeOk)]
                    /\ IF QuotaReached(list)
                       THEN /\ result' = [result EXCEPT ![c] = list]
                            /\ pc' = [pc EXCEPT ![c] = "done"]
                            /\ running' = 0
                       ELSE UNCHANGED <<result, pc, running>>
    /\ UNCHANGED <<html, fetchError>>
    /\ UNCHANGED pageVars

(* The loop of lines 28-55 run from start to end on one text, with locals  *)
(* of its own: what a call returns when nothing else runs.                 *)
RECURSIVE Scan(_, _, _, _)
Scan(text, idx, list, seen) ==
    IF idx >= Len(text) THEN list
    ELSE LET match == text[idx + 1]
             sizeOk == SizeOk(ParseInt(match.width), ParseInt(match.height))
             next == PhotosAfter(list, seen, match)
         IN  IF QuotaReached(next) THEN next
             ELSE Scan(text, idx + 1, next, SeenAfter(seen, match.url, sizeOk))

RunAlone(text) == Scan(text, 0, <<>>, {})

-----------------------------------------------------------------------------
(* renderGallery, lines 63-131 *)

BaseClasses ==
    <<"relative", "group", "overflow-hidden", "rounded-3xl", "shadow-md",
      "cursor-pointer", "bg-gray-100">>

(* Faulty variant: the wide item taken to be the last one *)
ItemClassesLastWide(index, count) ==
    IF index = 0 THEN BaseClasses \o <<"col-span-2", "row-span-2">>
    ELSE IF index = count - 1 THEN BaseClasses \o <<"col-span-2">>
    ELSE BaseClasses

(* The classes of the item at a 0-based index, lines 83-101 *)
ItemClasses(index, count) ==
    IF index = 0 THEN BaseClasses \o <<"col-span-2", "row-span-2">>
    ELSE IF index = 5 THEN BaseClasses \o <<"col-span-2">>
    ELSE BaseClasses

(* Whether the item gets the caption overlay, line 110 *)
HasOverlay(index) == index = 0 \/ index = 5

(* The div built for photos[index], lines 79-129 *)
Element(photo, index, count) ==
    [ kind |-> "div",
      className |-> ItemClasses(index, count),
      src |-> photo.url,
      overlay |-> HasOverlay(index) ]

(* The message of line 71 *)
Unavailable ==
    [ kind |-> "p",
      className |-> <<"text-center", "text-gray-500", "col-span-full">>,
      src |-> 0,
      overlay |-> FALSE ]

(* What the page holds in the container before the script runs *)
Placeholder ==
    [ kind |-> "placeholder", className |-> <<>>, src |-> 0, overlay |-> FALSE ]

(* Faulty variant: the container not cleared *)
NotCleared(old) == old

(* container.innerHTML = '', line 68 *)
Cleared(old) == <<>>

(* Variant: the list clamped to its first 6 photos *)
ForEachFirstSix(start, list) ==
    start \o [i \in 1..(IF Len(list) < 6 THEN Len(list) ELSE 6) |->
                 Element(list[i], i - 1, Len(list))]

(* photos.forEach(...), lines 78-130: one div appended per photo *)
ForEach(start, list) ==
    start \o [i \in 1..Len(list) |-> Element(list[i], i - 1, Len(list))]

(* The container's children after renderGallery(list) *)
Rendered(exists, old, list) ==
    IF ~exists THEN old
    ELSE IF Len(list) = 0 THEN Cleared(old) \o <<Unavailable>>
    ELSE ForEach(Cleared(old), list)

renderGallery(list) ==
    /\ children' = Rendered(containerExists, children, list)
    /\ renderCalled' = TRUE
    /\ lastArg' = list
    /\ UNCHANGED containerExists

-----------------------------------------------------------------------------
(* The DOMContentLoaded handler, lines 134-140 *)

(* Lines 135-137: look the container up and, if it exists, call            *)
(* fetchGooglePhotos, which runs up to its first await.                    *)
DOMContentLoaded ==
    /\ hpc = "start"
    /\ running = 0
    /\ IF containerExists
       THEN /\ hpc' = "awaiting"
            /\ pc' = [pc EXCEPT ![1] = "fetch"]
       ELSE /\ hpc' = "finished"
            /\ UNCHANGED pc
    /\ UNCHANGED <<html, fetchError, result, lastIndex, photos, seenUrls, running>>
    /\ UNCHANGED domVars

(* Lines 137-138: the awaited promise settled; on a value, render it *)
HandlerResume ==
    /\ hpc = "awaiting"
    /\ running = 0
    /\ pc[1] \in {"done", "rejected"}
    /\ IF pc[1] = "done"
       THEN /\ renderGallery(result[1])
            /\ hpc' = "finished"
       ELSE /\ hpc' = "failed"
            /\ UNCHANGED domVars
    /\ UNCHANGED callVars

-----------------------------------------------------------------------------
(* The page: one DOMContentLoaded event *)

InitCalls(start) ==
    /\ pc = [c \in Calls |-> start]
    /\ html = [c \in Calls |-> <<>>]
    /\ fetchError = [c \in Calls |-> "none"]
    /\ result = [c \in Calls |-> <<>>]
    /\ lastIndex = [f \in Calls |-> 0]
    /\ photos = [f \in Calls |-> <<>>]
    /\ seenUrls = [f \in Calls |-> {}]
    /\ running = 0

InitDom ==
    /\ containerExists \in BOOLEAN
    /\ children \in (IF containerExists THEN {<<>>, <<Placeholder>>} ELSE {<<>>})
    /\ renderCalled = FALSE
    /\ lastArg = <<>>

Init ==
    /\ InitCalls("idle")
    /\ containerExists \in BOOLEAN
    /\ children = (IF containerExists THEN <<Placeholder>> ELSE <<>>)
    /\ renderCalled = FALSE
    /\ lastArg = <<>>
    /\ hpc = "start"

Next ==
    \/ DOMContentLoaded
    \/ \E c \in Calls : FetchReject(c)
    \/ \E c \in Calls : FetchResolve(c)
    \/ \E c \in Calls : TextReject(c)
    \/ \E c \in Calls : BodyChunk(c, Extensions(html[c]))
    \/ \E c \in Calls : TextResolve(c)
    \/ \E c \in Calls : ScanStep(c)
    \/ HandlerResume

Spec == Init /\ [][Next]_vars

-----------------------------------------------------------------------------
(* Two calls of fetchGooglePhotos in flight at once *)

InitConc ==
    /\ InitCalls("fetch")
    /\ containerExists = FALSE
    /\ children = <<>>
    /\ renderCalled = FALSE
    /\ lastArg = <<>>
    /\ hpc = "none"

NextConc ==
    \/ \E c \in Calls : FetchReject(c)
    \/ \E c \in Calls : FetchResolve(c)
    \/ \E c \in Calls : TextReject(c)
    \/ \E c \in Calls : BodyChunk(c, ConcExtensions(html[c]))
    \/ \E c \in Calls : TextResolve(c)
    \/ \E c \in Calls : ScanStep(c)

SpecConc == InitConc /\ [][NextConc]_vars

-----------------------------------------------------------------------------
(* renderGallery called directly, any number of times, with any list *)

RenderPhotos ==
    { [url |-> 1, width |-> 301, height |-> 301],
      [url |-> 2, width |-> 1024, height |-> 768] }

PhotoLists == UNION {[1..n -> RenderPhotos] : n \in 0..MaxRenderLen}

InitRender ==
    /\ InitCalls("idle")
    /\ InitDom
    /\ hpc = "none"

RenderCall ==
    /\ \E list \in PhotoLists : renderGallery(list)
    /\ UNCHANGED callVars
    /\ UNCHANGED hpc

NextRender == RenderCall

SpecRender == InitRender /\ [][NextRender]_vars

-----------------------------------------------------------------------------
(* Properties *)

Returned(c) == pc[c] = "done" /\ fetchError[c] = "none"

Value(digits) == ParseInt(digits)

Passes(m) == Value(m.width) > 300 /\ Value(m.height) > 300

PhotoOf(m) == [url |-> m.url, width |-> Value(m.width), height |-> Value(m.height)]

UrlSet(list) == {list[i].url : i \in 1..Len(list)}

(* C1: the list a call returns has at most 6 entries, and the photos array *)
(* never holds more than 6 entries at any step of the scan.                *)
C1_AtMostSix ==
    /\ \A c \in Calls : Len(result[c]) <= 6
    /\ \A f \in Calls : Len(photos[f]) <= 6

(* The scan stopped at 6 photos although a valid, unseen match followed *)
C1_Witness ==
    \E c \in Calls :
        /\ Returned(c)
        /\ Len(result[c]) = 6
        /\ \E i \in (lastIndex[Frame(c)] + 1)..Len(html[c]) :
              Passes(html[c][i]) /\ html[c][i].url \notin UrlSet(result[c])

(* C2: every photo returned, and every photo in the array at any step of   *)
(* the scan, has width > 300 and height > 300.                             *)
C2_AboveThreshold ==
    /\ \A c \in Calls : \A i \in 1..Len(result[c]) :
          result[c][i].width > 300 /\ result[c][i].height > 300
    /\ \A f \in Calls : \A i \in 1..Len(photos[f]) :
          photos[f][i].width > 300 /\ photos[f][i].height > 300

(* A text with a match of width exactly 300, one of height exactly 300 and *)
(* an accepted one has been scanned to the end.                            *)
C2_Witness ==
    \E c \in Calls :
        /\ Returned(c)
        /\ result[c] # <<>>
        /\ \E i, j \in 1..Len(html[c]) :
              /\ Value(html[c][i].width) = 300 /\ Value(html[c][i].height) > 300
              /\ Value(html[c][j].height) = 300 /\ Value(html[c][j].width) > 300

(* C3: the urls of a returned list are pairwise distinct, each returned    *)
(* photo is the first valid match of its URL, and at every step of the     *)
(* scan the urls of the photos array are pairwise distinct and seenUrls is *)
(* exactly the set of urls in the array.                                   *)
C3_DistinctUrls ==
    /\ \A c \in Calls : \A i, j \in 1..Len(result[c]) :
          result[c][i].url = result[c][j].url => i = j
    /\ \A c \in Calls : Returned(c) =>
          \A i \in 1..Len(result[c]) :
             \E k \in 1..Len(html[c]) :
                /\ Passes(html[c][k])
                /\ PhotoOf(html[c][k]) = result[c][i]
                /\ \A j \in 1..(k - 1) :
                      html[c][j].url = html[c][k].url => ~Passes(html[c][j])
    /\ \A f \in Calls :
          /\ \A i, j \in 1..Len(photos[f]) :
                photos[f][i].url = photos[f][j].url => i = j
          /\ seenUrls[f] = UrlSet(photos[f])

(* Two valid matches of one URL, of different dimensions, were scanned *)
C3_Witness ==
    \E c \in Calls :
        /\ Returned(c)
        /\ Len(result[c]) < 6
        /\ \E i, j \in 1..Len(html[c]) :
              /\ i < j
              /\ html[c][i].url = html[c][j].url
              /\ Passes(html[c][i])
              /\ Passes(html[c][j])
              /\ PhotoOf(html[c][i]) # PhotoOf(html[c][j])

(* The reference: the matches in source order, those above the threshold   *)
(* kept, every later match of a kept URL dropped, the first 6 returned.    *)
RECURSIVE FirstOccurrences(_)
FirstOccurrences(list) ==
    IF list = <<>> THEN <<>>
    ELSE LET front == SubSeq(list, 1, Len(list) - 1)
             last == list[Len(list)]
         IN  IF last.url \in UrlSet(front)
             THEN FirstOccurrences(front)
             ELSE Append(FirstOccurrences(front), last)

Accepted(text) ==
    LET kept == SelectSeq(text, Passes)
    IN  FirstOccurrences([i \in 1..Len(kept) |-> PhotoOf(kept[i])])

Reference(text) ==
    LET all == Accepted(text)
    IN  IF Len(all) <= 6 THEN all ELSE SubSeq(all, 1, 6)

(* C4: what a call returns equals the reference computed from its text *)
C4_EqualsReference ==
    \A c \in Calls : Returned(c) => result[c] = Reference(html[c])

(* The eight-match scenario was scanned and gave its five accepted photos *)
C4_Witness ==
    \E c \in Calls :
        /\ Returned(c)
        /\ html[c] = ScenarioText
        /\ Len(result[c]) = 5

(* C10: seenUrls holds only urls of accepted photos, and a valid match     *)
(* whose URL occurred before only in below-threshold matches is accepted,  *)
(* with its own dimensions, at its own place in the order, when fewer than *)
(* 6 photos were accepted before it.                                       *)
C10_SeenOnlyWhenAccepted ==
    /\ \A f \in Calls : seenUrls[f] \subseteq UrlSet(photos[f])
    /\ \A c \in Calls : Returned(c) =>
          \A k \in 1..Len(html[c]) :
             LET m == html[c][k]
             IN  ( /\ Passes(m)
                   /\ \E j \in 1..(k - 1) : html[c][j].url = m.url
                   /\ \A j \in 1..(k - 1) : html[c][j].url = m.url => ~Passes(html[c][j])
                   /\ Len(Accepted(SubSeq(html[c], 1, k - 1))) < 6 )
                 => LET before == Len(Accepted(SubSeq(html[c], 1, k - 1)))
                    IN  /\ Len(result[c]) > before
                        /\ result[c][before + 1] = PhotoOf(m)

(* A URL first seen below the threshold was accepted at a later match *)
C10_Witness ==
    \E c \in Calls :
        /\ Returned(c)
        /\ \E j, k \in 1..Len(html[c]) :
              /\ j < k
              /\ html[c][j].url = html[c][k].url
              /\ ~Passes(html[c][j])
              /\ Passes(html[c][k])
              /\ PhotoOf(html[c][k]) \in {result[c][i] : i \in 1..Len(result[c])}

(* C6: when the fetch rejects, the response is not ok or reading the text  *)
(* rejects, the call completes with an empty list, and the handler goes on *)
(* to renderGallery with that empty list.                                  *)
C6_FailureGivesEmptyList ==
    /\ \A c \in Calls : fetchError[c] # "none" =>
          pc[c] = "done" /\ result[c] = <<>>
    /\ hpc # "failed"
    /\ fetchError[1] # "none" =>
          /\ hpc \in {"awaiting", "finished"}
          /\ hpc = "awaiting" => ENABLED HandlerResume
          /\ hpc = "finished" =>
                renderCalled /\ lastArg = <<>> /\ children = <<Unavailable>>

(* A response that was not ok ended in the rendered message *)
C6_Witness ==
    /\ fetchError[1] = "status"
    /\ hpc = "finished"
    /\ renderCalled
    /\ children = <<Unavailable>>

(* C7: every call returns what it returns when run alone on its text, so   *)
(* two calls on the same text return the same list.                        *)
C7_CallsIndependent ==
    /\ \A c \in Calls : Returned(c) => result[c] = RunAlone(html[c])
    /\ \A c, d \in Calls :
          Returned(c) /\ Returned(d) /\ html[c] = html[d] => result[c] = result[d]

(* Two calls returned, on different texts that accept a common URL *)
C7_Witness ==
    /\ Returned(1)
    /\ Returned(2)
    /\ html[1] # html[2]
    /\ UrlSet(result[1]) \cap UrlSet(result[2]) # {}
    /\ Len(result[1]) # Len(result[2])

-----------------------------------------------------------------------------
(* The slot of a rendered element *)

Tokens(className) == {className[i] : i \in 1..Len(className)}

SizeClassOf(node) ==
    IF {"col-span-2", "row-span-2"} \subseteq Tokens(node.className) THEN "LARGE"
    ELSE IF "col-span-2" \in Tokens(node.className) THEN "WIDE"
    ELSE "SMALL"

SlotOf(node) == [sizeClass |-> SizeClassOf(node), hasOverlay |-> node.overlay]

Table(i) ==
    IF i = 0 THEN [sizeClass |-> "LARGE", hasOverlay |-> TRUE]
    ELSE IF i = 5 THEN [sizeClass |-> "WIDE", hasOverlay |-> TRUE]
    ELSE [sizeClass |-> "SMALL", hasOverlay |-> FALSE]

ShownBy(list) ==
    /\ Len(children) = Len(list)
    /\ \A i \in 1..Len(list) :
          children[i].kind = "div" /\ children[i].src = list[i].url

(* C5: for a list of 1 to 6 photos the slot at index i is the table's,     *)
(* whatever the photos are, and an element has the overlay exactly when    *)
(* its size class is LARGE or WIDE.                                        *)
C5_SlotByIndex ==
    (renderCalled /\ containerExists /\ Len(lastArg) \in 1..6) =>
        /\ Len(children) = Len(lastArg)
        /\ \A i \in 1..Len(children) :
              /\ SlotOf(children[i]) = Table(i - 1)
              /\ children[i].overlay <=> SizeClassOf(children[i]) \in {"LARGE", "WIDE"}

(* Six photos, not all the same, were rendered *)
C5_Witness ==
    /\ renderCalled
    /\ containerExists
    /\ Len(lastArg) = 6
    /\ Len(children) = 6
    /\ lastArg[1] # lastArg[6]
    /\ lastArg[2] # lastArg[3]

(* C8 as stated: renderGallery never produces a 7th slot *)
C8_NeverSeventhSlot == Len(children) <= 6

(* C8 as it holds: given more than 6 photos renderGallery neither clamps   *)
(* nor raises; it produces one slot per photo, and every slot at index 6   *)
(* or later is SMALL without overlay.                                      *)
C8_OneSlotPerItem ==
    (renderCalled /\ containerExists /\ Len(lastArg) > 6) =>
        /\ ShownBy(lastArg)
        /\ \A i \in 1..Len(children) : SlotOf(children[i]) = Table(i - 1)
        /\ \A i \in 7..Len(children) :
              SlotOf(children[i]) = [sizeClass |-> "SMALL", hasOverlay |-> FALSE]

(* More than six photos were rendered *)
C8_Witness ==
    /\ renderCalled
    /\ containerExists
    /\ Len(lastArg) > 6
    /\ Len(children) > 6

(* C9: after any sequence of calls an existing container holds what the    *)
(* last call built: the message alone for an empty list, else one element  *)
(* per photo, in input order; without a container nothing changes.         *)
C9_LastCallOnly ==
    renderCalled =>
        /\ (containerExists /\ lastArg = <<>>) => children = <<Unavailable>>
        /\ (containerExists /\ lastArg # <<>>) => ShownBy(lastArg)
        /\ ~containerExists => children = <<>>

(* Two different photos were rendered, the second photo of the pool first *)
C9_Witness ==
    /\ renderCalled
    /\ containerExists
    /\ Len(lastArg) = 2
    /\ lastArg[1].url = 2
    /\ lastArg[2].url = 1
    /\ children[1].src = 2
    /\ children[2].src = 1

====
